---- MODULE Spec2Model ----
(***************************************************************************)
(* Model of jc/parsers/git_log.py: the line-driven `git log` parser.       *)
(* A string is a sequence of one-character strings; a dict is a function   *)
(* from key names to values; a dict object lives in `heap` and is named    *)
(* by its index there, so that two names of one object stay one object.    *)
(***************************************************************************)
EXTENDS Integers, Sequences, FiniteSets, TLC

\* ---------------------------------------------------------------- bounds
MaxLines == 3

\* -------------------------------------------------------- str primitives
Whitespace == {" ", "\t"}

Digits == {"0", "1", "2", "3", "4", "5", "6", "7", "8", "9"}

HexChars == Digits \cup {"a", "b", "c", "d", "e", "f"}

Min(S) == CHOOSE x \in S : \A y \in S : x <= y

Max(S) == CHOOSE x \in S : \A y \in S : x >= y

\* s[from..] (a Python slice s[from-1:])
Tail_from(s, from) == SubSeq(s, from, Len(s))

\* str.startswith(p)
startswith(s, p) == Len(s) >= Len(p) /\ SubSeq(s, 1, Len(p)) = p

\* p in s
contains(s, p) == \E k \in 1..(Len(s) - Len(p) + 1) : SubSeq(s, k, k + Len(p) - 1) = p

\* index of the first character of s at or after `from` that is not in C
\* (Len(s)+1 when there is none): the end of a maximal run of C
RunEnd(s, from, C) == Min({k \in from..Len(s) : s[k] \notin C} \cup {Len(s) + 1})

\* str.lstrip(chars), str.rstrip(chars), str.strip(chars)
lstrip(s, C) == Tail_from(s, RunEnd(s, 1, C))

rstrip(s, C) == SubSeq(s, 1, Max({k \in 1..Len(s) : s[k] \notin C} \cup {0}))

strip(s, C) == rstrip(lstrip(s, C), C)

\* str.split(maxsplit=1): the list of at most two pieces
split1(s) ==
    LET t     == lstrip(s, Whitespace)
        k     == Min({j \in 1..Len(t) : t[j] \in Whitespace} \cup {Len(t) + 1})
        first == SubSeq(t, 1, k - 1)
        rest  == lstrip(Tail_from(t, k), Whitespace)
    IN  IF t = <<>> THEN <<>>
        ELSE IF rest = <<>> THEN <<first>>
        ELSE <<first, rest>>

\* str.rsplit(maxsplit=1)
rsplit1(s) ==
    LET t    == rstrip(s, Whitespace)
        k    == Max({j \in 1..Len(t) : t[j] \in Whitespace} \cup {0})
        last == Tail_from(t, k + 1)
        head == rstrip(SubSeq(t, 1, k), Whitespace)
    IN  IF t = <<>> THEN <<>>
        ELSE IF head = <<>> THEN <<last>>
        ELSE <<head, last>>

\* line.split('|')[0]
before_bar(s) == SubSeq(s, 1, Min({k \in 1..Len(s) : s[k] = "|"} \cup {Len(s) + 1}) - 1)

\* '\n'.join(lines)
RECURSIVE join(_)
join(ls) ==
    IF ls = <<>> THEN <<>>
    ELSE IF Len(ls) = 1 THEN ls[1]
    ELSE ls[1] \o <<"\n">> \o join(Tail(ls))

\* ----------------------------------------------------- program literals
pfxCommit == <<"c", "o", "m", "m", "i", "t", " ">>

pfxMerge == <<"M", "e", "r", "g", "e", ":", " ">>

pfxAuthor == <<"A", "u", "t", "h", "o", "r", ":", " ">>

pfxDate == <<"D", "a", "t", "e", ":", " ">>

pfxAuthorDate == <<"A", "u", "t", "h", "o", "r", "D", "a", "t", "e", ":", " ">>

pfxCommitDate == <<"C", "o", "m", "m", "i", "t", "D", "a", "t", "e", ":", " ">>

pfxCommitBy == <<"C", "o", "m", "m", "i", "t", ":", " ">>

pfxIndent == <<" ", " ", " ", " ">>

subChanged == <<"c", "h", "a", "n", "g", "e", "d", ",", " ">>

reFile == <<"f", "i", "l", "e">>

reChanged == <<" ", "c", "h", "a", "n", "g", "e", "d">>

reInsertion == <<"i", "n", "s", "e", "r", "t", "i", "o", "n">>

rePlus == <<"(", "+", ")">>

Zero == <<"0">>

HashLen == 40

\* ------------------------------------------------------ _is_commit_hash
\* re.match(r'([0-9]|[a-f])+', s): the pattern is anchored at the start
\* only, so it matches as soon as the first character is a hex digit
hash_pattern_matches(s) == Len(s) >= 1 /\ s[1] \in HexChars

_is_commit_hash(hash_string) ==
    IF Len(hash_string) # HashLen THEN FALSE
    ELSE hash_pattern_matches(hash_string)

\* ------------------------------------------------------ changes_pattern
\* re.match(changes_pattern, line) for
\*   \s(?P<files>\d+)\s+(files? changed),\s+(?P<insertions>\d+)\s
\*   (insertions?\(\+\))?(,\s+)?(?P<deletions>\d+)?(\s+deletions?\(\-\))?
\* Every quantifier is greedy and each run is followed by a character class
\* disjoint from it, so the first match the engine finds takes maximal runs.
\* None (no match, or a group that did not take part) is <<>>; a \d+ group
\* that took part is never empty.
None == <<>>

lit_at(s, p, w) == Len(s) >= p + Len(w) - 1 /\ SubSeq(s, p, p + Len(w) - 1) = w

changes_match(line) ==
    LET p1 == 2                                   \* after \s
        p2 == RunEnd(line, p1, Digits)            \* after (?P<files>\d+)
        p3 == RunEnd(line, p2, Whitespace)        \* after \s+
        p4 == p3 + Len(reFile)                    \* after file
        p5 == IF lit_at(line, p4, <<"s">>) THEN p4 + 1 ELSE p4   \* s?
        p6 == p5 + Len(reChanged)                 \* after ' changed'
        p7 == p6 + 1                              \* after ,
        p8 == RunEnd(line, p7, Whitespace)        \* after \s+
        p9 == RunEnd(line, p8, Digits)            \* after (?P<insertions>\d+)
        p10 == p9 + 1                             \* after \s
        i1 == p10 + Len(reInsertion)
        i2 == IF lit_at(line, i1, <<"s">>) THEN i1 + 1 ELSE i1
        p11 == IF lit_at(line, p10, reInsertion) /\ lit_at(line, i2, rePlus)
               THEN i2 + Len(rePlus) ELSE p10     \* (insertions?\(\+\))?
        c1 == RunEnd(line, p11 + 1, Whitespace)
        p12 == IF lit_at(line, p11, <<",">>) /\ c1 > p11 + 1
               THEN c1 ELSE p11                   \* (,\s+)?
        p13 == RunEnd(line, p12, Digits)          \* (?P<deletions>\d+)?
        ok == /\ Len(line) >= 1 /\ line[1] \in Whitespace
              /\ p2 > p1
              /\ p3 > p2
              /\ lit_at(line, p3, reFile)
              /\ lit_at(line, p5, reChanged)
              /\ lit_at(line, p6, <<",">>)
              /\ p8 > p7
              /\ p9 > p8
              /\ Len(line) >= p9 /\ line[p9] \in Whitespace
    IN  IF ok
        THEN [matched |-> TRUE,
              files |-> SubSeq(line, p1, p2 - 1),
              insertions |-> SubSeq(line, p8, p9 - 1),
              deletions |-> IF p13 > p12 THEN SubSeq(line, p12, p13 - 1) ELSE None]
        ELSE [matched |-> FALSE, files |-> None, insertions |-> None, deletions |-> None]

\* x or '0'
or_zero(x) == IF x # <<>> THEN x ELSE Zero

\* ------------------------------------------------------------ input lines
H1 == [k \in 1..HashLen |-> "a"]

H2 == [k \in 1..HashLen |-> "b"]

lnOne1 == H1 \o <<" ", "f", "i", "x", " ", "b", "u", "g">>

lnOne2 == H2 \o <<" ", "m">>

lnHashOnly == H1

lnCommitA == <<"c", "o", "m", "m", "i", "t", " ", "A">>

lnCommitB == <<"c", "o", "m", "m", "i", "t", " ", "B">>

lnCommitBare == <<"c", "o", "m", "m", "i", "t", " ">>

lnMerge == <<"M", "e", "r", "g", "e", ":", " ", "p", " ", "q">>

lnAuthor == <<"A", "u", "t", "h", "o", "r", ":", " ", "n", " ", "<", "e", ">">>

lnDate == <<"D", "a", "t", "e", ":", " ", "d">>

lnAuthorDate == <<"A", "u", "t", "h", "o", "r", "D", "a", "t", "e", ":", " ", "d">>

lnCommitDate == <<"C", "o", "m", "m", "i", "t", "D", "a", "t", "e", ":", " ", "c">>

lnCommitBy == <<"C", "o", "m", "m", "i", "t", ":", " ", "k", " ", "<", "j", ">">>

lnMsgOne == <<" ", " ", " ", " ", "l", "i", "n", "e", " ", "o", "n", "e">>

lnMsgTwo == <<" ", " ", " ", " ", "l", "i", "n", "e", " ", "t", "w", "o">>

lnFileF == <<" ", "f", " ", "|", " ", "1", " ", "+">>

lnFileG == <<" ", "g", " ", "|", " ", "2", " ", "-">>

lnSumBoth == <<" ", "3", " ", "f", "i", "l", "e", "s", " ", "c", "h", "a", "n", "g", "e", "d", ",", " ", "1", "0", " ", "i", "n", "s", "e", "r", "t", "i", "o", "n", "s", "(", "+", ")", ",", " ", "2", " ", "d", "e", "l", "e", "t", "i", "o", "n", "s", "(", "-", ")">>

lnSumIns == <<" ", "3", " ", "f", "i", "l", "e", "s", " ", "c", "h", "a", "n", "g", "e", "d", ",", " ", "1", "0", " ", "i", "n", "s", "e", "r", "t", "i", "o", "n", "s", "(", "+", ")">>

lnSumDel == <<" ", "1", " ", "f", "i", "l", "e", " ", "c", "h", "a", "n", "g", "e", "d", ",", " ", "5", " ", "d", "e", "l", "e", "t", "i", "o", "n", "s", "(", "-", ")">>

lnSumBad == <<" ", "x", " ", "c", "h", "a", "n", "g", "e", "d", ",", " ", "y">>

lnBlank == <<>>

lnJunk == <<"j", "u", "n", "k">>

lnMsgDeep == <<" ", " ", " ", " ", " ", " ", "d", "e", "e", "p", " ">>

lnLoose == <<"a">> \o [k \in 1..(HashLen - 1) |-> "z"] \o <<" ", "m">>

lnSpaces == <<" ", " ">>

\* the lines an input is made of; an input names its lines by their place here
Lines ==
    << lnOne1, lnOne2, lnHashOnly, lnCommitA, lnCommitB, lnCommitBare,
      lnMerge, lnAuthor, lnDate, lnAuthorDate, lnCommitDate,
      lnCommitBy, lnMsgOne, lnMsgTwo, lnFileF, lnFileG, lnSumBoth, lnSumIns,
      lnSumDel, lnSumBad, lnBlank, lnSpaces, lnJunk, lnMsgDeep, lnLoose >>

Inputs == UNION { [1..n -> 1..Len(Lines)] : n \in 0..MaxLines }

\* ------------------------------------------------------------------ dicts
EmptyDict == [k \in {} |-> <<>>]

\* d[k] = v
put(d, k, v) == [x \in (DOMAIN d) \cup {k} |-> IF x = k THEN v ELSE d[x]]

\* bool(d)
truthy(d) == DOMAIN d # {}

\* an element of a list of mixed element types
Str(s) == [kind |-> "str", val |-> s]

List(l) == [kind |-> "list", val |-> l]

\* ------------------------------------------------------------------ state
VARIABLES
    data,           \* data.splitlines(): the input, a sequence of places in Lines
    i,              \* position of the for loop: data[i] is the next line
    pc,             \* "loop" | "done" | "raised"
    exc,            \* the exception parse raised, "none" if it did not
    heap,           \* the dict objects created so far
    raw_output,     \* list of references into heap
    output_line,    \* reference into heap
    message_lines,  \* list of str
    file_list,      \* list of str
    ret             \* the returned list of dicts, once pc = "done"

\* the state of a call of ini.parse (jc/parsers/ini.py)
VARIABLES
    ini_data,       \* the input text, a sequence of places in IniLines
    ini_raw,        \* the raw parameter
    ini_pc,         \* "idle" | "try" | "except" | "return" | "done" | "raised"
    ini_exc,        \* the exception parse raised, "none" if it did not
    ini_raw_output, \* raw_output
    ini_ret         \* the returned dict, once ini_pc = "done"

git_vars == <<data, i, pc, exc, heap, raw_output, output_line, message_lines, file_list, ret>>

ini_vars == <<ini_data, ini_raw, ini_pc, ini_exc, ini_raw_output, ini_ret>>

vars == <<git_vars, ini_vars>>

\* jc.utils.has_data(data): data is non-empty and not all whitespace
not_isspace(line) == \E k \in 1..Len(line) : line[k] \notin Whitespace

not_isspace_of == [n \in 1..Len(Lines) |-> not_isspace(Lines[n])]

has_data(d) == \E n \in 1..Len(d) : not_isspace_of[d[n]]

_process(proc_data) == proc_data

Init ==
    /\ data \in Inputs
    /\ i = 1
    /\ pc = "loop"
    /\ exc = "none"
    /\ heap = <<EmptyDict>>
    /\ raw_output = <<>>
    /\ output_line = 1
    /\ message_lines = <<>>
    /\ file_list = <<>>
    /\ ret = <<>>
    /\ ini_data = <<>>
    /\ ini_raw = FALSE
    /\ ini_pc = "idle"
    /\ ini_exc = "none"
    /\ ini_raw_output = EmptyDict
    /\ ini_ret = EmptyDict

\* the if-chain of the loop body: the first test that holds names the branch
branch(line) ==
    LET line_list == split1(line)
    IN  IF line_list # <<>> /\ _is_commit_hash(line_list[1]) THEN "oneline"
        ELSE IF startswith(line, pfxCommit) THEN "commit"
        ELSE IF startswith(line, pfxMerge) THEN "merge"
        ELSE IF startswith(line, pfxAuthor) THEN "author"
        ELSE IF startswith(line, pfxDate) THEN "date"
        ELSE IF startswith(line, pfxAuthorDate) THEN "authordate"
        ELSE IF startswith(line, pfxCommitDate) THEN "commitdate"
        ELSE IF startswith(line, pfxCommitBy) THEN "commitby"
        ELSE IF startswith(line, pfxIndent) THEN "message"
        ELSE IF startswith(line, <<" ">>) /\ ~contains(line, subChanged) THEN "filename"
        ELSE IF startswith(line, <<" ">>) /\ contains(line, subChanged) THEN "summary"
        ELSE "none"

\* per line of Lines: line.split(maxsplit=1) and the branch taken
line_list_of == [n \in 1..Len(Lines) |-> split1(Lines[n])]

branch_of == [n \in 1..Len(Lines) |-> branch(Lines[n])]

InLoop(b) ==
    /\ pc = "loop"
    /\ i <= Len(data)
    /\ branch_of[data[i]] = b
    /\ has_data(data)

\* an uncaught exception leaves parse: its locals are gone, nothing is returned
Raise(e) ==
    /\ pc' = "raised"
    /\ exc' = e
    /\ UNCHANGED <<ini_vars, data, i, heap, raw_output, output_line, message_lines, file_list, ret>>

\* a seal that assigns message whether or not lines were buffered
seal_message_always(rec, msgs) == put(rec, "message", join(msgs))

\* if message_lines: output_line['message'] = '\n'.join(message_lines)
seal_message(rec, msgs) ==
    IF msgs # <<>> THEN put(rec, "message", join(msgs)) ELSE rec

\* if file_list: output_line['stats']['files'].append(file_list)
seal_files_raises(rec, fl) == fl # <<>> /\ "stats" \notin DOMAIN rec

seal_files(rec, fl) ==
    IF fl # <<>>
    THEN put(rec, "stats", [rec["stats"] EXCEPT !.files = Append(@, List(fl))])
    ELSE rec

seal(rec, msgs, fl) == seal_files(seal_message(rec, msgs), fl)

\* ---------------------------------------------------------------- actions
\* oneline style (lines 135-142)
oneline_record(line_list) == [commit |-> line_list[1], message |-> line_list[2]]

OnelineStyle ==
    /\ InLoop("oneline")
    /\ LET line_list == line_list_of[data[i]]
       IN  IF Len(line_list) < 2
           THEN Raise("IndexError")
           ELSE /\ heap' = Append(heap, oneline_record(line_list))
                /\ output_line' = Len(heap) + 1
                /\ raw_output' = Append(raw_output, Len(heap) + 1)
                /\ i' = i + 1
                /\ UNCHANGED <<ini_vars, data, pc, exc, message_lines, file_list, ret>>

\* all other styles: a 'commit ' line (lines 145-158)
CommitLine ==
    /\ InLoop("commit")
    /\ LET line_list == line_list_of[data[i]]
           open      == truthy(heap[output_line])
           sealed    == [heap EXCEPT ![output_line] = seal(@, message_lines, file_list)]
           heap1     == IF open THEN Append(sealed, EmptyDict) ELSE heap
           cur       == IF open THEN Len(heap) + 1 ELSE output_line
       IN  IF open /\ seal_files_raises(heap[output_line], file_list)
           THEN Raise("KeyError")
           ELSE IF Len(line_list) < 2
           THEN Raise("IndexError")
           ELSE /\ heap' = [heap1 EXCEPT ![cur] = put(@, "commit", line_list[2])]
                /\ output_line' = cur
                /\ raw_output' = IF open THEN Append(raw_output, output_line) ELSE raw_output
                /\ message_lines' = IF open THEN <<>> ELSE message_lines
                /\ file_list' = IF open THEN <<>> ELSE file_list
                /\ i' = i + 1
                /\ UNCHANGED <<ini_vars, data, pc, exc, ret>>

\* output_line[key] = line_list[1] (lines 160-162, 170-180)
merge_key == "merge"

SetField(key) ==
    LET line_list == line_list_of[data[i]]
    IN  IF Len(line_list) < 2
        THEN Raise("IndexError")
        ELSE /\ heap' = [heap EXCEPT ![output_line] = put(@, key, line_list[2])]
             /\ i' = i + 1
             /\ UNCHANGED <<ini_vars, data, pc, exc, raw_output, output_line, message_lines, file_list, ret>>

\* values = line_list[1].rsplit(maxsplit=1); name and e-mail (lines 164-168, 182-186)
SetIdentity(name_key, email_key) ==
    LET line_list == line_list_of[data[i]]
        values    == rsplit1(line_list[2])
        email     == strip(strip(values[2], {"<"}), {">"})
    IN  IF Len(line_list) < 2 \/ Len(values) < 2
        THEN Raise("IndexError")
        ELSE /\ heap' = [heap EXCEPT ![output_line] =
                            put(put(@, name_key, values[1]), email_key, email)]
             /\ i' = i + 1
             /\ UNCHANGED <<ini_vars, data, pc, exc, raw_output, output_line, message_lines, file_list, ret>>

MergeLine == InLoop("merge") /\ SetField(merge_key)

AuthorLine == InLoop("author") /\ SetIdentity("author", "author_email")

DateLine == InLoop("date") /\ SetField("date")

AuthorDateLine == InLoop("authordate") /\ SetField("date")

CommitDateLine == InLoop("commitdate") /\ SetField("commit_by_date")

CommitByLine == InLoop("commitby") /\ SetIdentity("commit_by", "commit_by_email")

\* a content that drops the four characters of indentation only
message_content_dedent(line) == SubSeq(line, Len(pfxIndent) + 1, Len(line))

\* message_lines.append(line.strip()) (lines 188-190)
message_content(line) == strip(line, Whitespace)

MessageLine ==
    /\ InLoop("message")
    /\ message_lines' = Append(message_lines, message_content(Lines[data[i]]))
    /\ i' = i + 1
    /\ UNCHANGED <<ini_vars, data, pc, exc, heap, raw_output, output_line, file_list, ret>>

\* this is a file name (lines 192-196)
file_name(line) == strip(before_bar(line), Whitespace)

FileNameLine ==
    /\ InLoop("filename")
    /\ file_list' = Append(file_list, file_name(Lines[data[i]]))
    /\ i' = i + 1
    /\ UNCHANGED <<ini_vars, data, pc, exc, heap, raw_output, output_line, message_lines, ret>>

\* this is the stat summary (lines 198-210)
stats_of(changes) ==
    [files_changed |-> or_zero(changes.files),
     insertions    |-> or_zero(changes.insertions),
     deletions     |-> or_zero(changes.deletions),
     files         |-> <<>>]

StatSummaryLine ==
    /\ InLoop("summary")
    /\ LET changes == changes_match(Lines[data[i]])
       IN  IF ~changes.matched
           THEN Raise("TypeError")
           ELSE /\ heap' = [heap EXCEPT ![output_line] = put(@, "stats", stats_of(changes))]
                /\ i' = i + 1
                /\ UNCHANGED <<ini_vars, data, pc, exc, raw_output, output_line, message_lines, file_list, ret>>

\* a skipped line that also ends the buffered message
IgnoredLine_resets ==
    /\ InLoop("none")
    /\ i' = i + 1
    /\ message_lines' = <<>>
    /\ UNCHANGED <<ini_vars, data, pc, exc, heap, raw_output, output_line, file_list, ret>>

\* no test of the loop body holds: the line is skipped
IgnoredLine ==
    /\ InLoop("none")
    /\ i' = i + 1
    /\ UNCHANGED <<ini_vars, data, pc, exc, heap, raw_output, output_line, message_lines, file_list, ret>>

\* after the loop (lines 212-221)
deref(h, refs) == [n \in 1..Len(refs) |-> h[refs[n]]]

\* an end of input that appends the in-progress dict even when it is empty
final_output_always(refs, ref, open) == Append(refs, ref)

final_output(refs, ref, open) == IF open THEN Append(refs, ref) ELSE refs

Return ==
    /\ pc = "loop"
    /\ ~has_data(data) \/ i > Len(data)
    /\ LET open   == truthy(heap[output_line])
           heap1  == IF open
                     THEN [heap EXCEPT ![output_line] = seal(@, message_lines, file_list)]
                     ELSE heap
           out    == final_output(raw_output, output_line, open)
       IN  IF open /\ seal_files_raises(heap[output_line], file_list)
           THEN Raise("KeyError")
           ELSE /\ heap' = heap1
                /\ raw_output' = out
                /\ \E raw \in BOOLEAN :
                      ret' = IF raw THEN deref(heap1, out) ELSE _process(deref(heap1, out))
                /\ pc' = "done"
                /\ UNCHANGED <<ini_vars, data, i, exc, output_line, message_lines, file_list>>

Next ==
    \/ OnelineStyle
    \/ CommitLine
    \/ MergeLine
    \/ AuthorLine
    \/ DateLine
    \/ AuthorDateLine
    \/ CommitDateLine
    \/ CommitByLine
    \/ MessageLine
    \/ FileNameLine
    \/ StatSummaryLine
    \/ IgnoredLine
    \/ Return

Spec == Init /\ [][Next]_vars

\* ====================================================== jc/parsers/ini.py
\* -------------------------------------------------------------- bounds
MaxIniLines == 3

\* ---------------------------------------------------------- input lines
iniSectS == <<"[", "s", "]">>

iniSectT == <<"[", "t", "]">>

iniKeyValue == <<"k", " ", "=", " ", "v">>

iniQuoted == <<"q", " ", "=", " ", "\"", "v", "\"">>

iniNoValue == <<"n">>

iniNoValueUpper == <<"N">>

iniIndented == <<" ", "w">>

iniComment == <<"#", " ", "c">>

iniBlank == <<>>

IniLines ==
    << iniSectS, iniSectT, iniKeyValue, iniQuoted, iniNoValue, iniNoValueUpper,
       iniIndented, iniComment, iniBlank >>

IniInputs == UNION { [1..n -> 1..Len(IniLines)] : n \in 0..MaxIniLines }

\* '[data]', the header parse puts before a text without section header
iniSectData == <<"[", "d", "a", "t", "a", "]">>

dataName == <<"d", "a", "t", "a">>

\* ------------------------------------------------ configparser.ConfigParser
\* str.lower() on the letters the lines use
UpperCase == <<"A", "B", "C", "D", "E", "F", "G", "H", "I", "J", "K", "L", "M",
               "N", "O", "P", "Q", "R", "S", "T", "U", "V", "W", "X", "Y", "Z">>

LowerCase == <<"a", "b", "c", "d", "e", "f", "g", "h", "i", "j", "k", "l", "m",
               "n", "o", "p", "q", "r", "s", "t", "u", "v", "w", "x", "y", "z">>

lower_char(c) ==
    IF \E k \in 1..Len(UpperCase) : UpperCase[k] = c
    THEN LowerCase[CHOOSE k \in 1..Len(UpperCase) : UpperCase[k] = c]
    ELSE c

\* optionxform: str.lower()
optionxform(s) == [k \in 1..Len(s) |-> lower_char(s[k])]

CommentPrefixes == {"#", ";"}

Delimiters == {"=", ":"}

\* the line is a full-line comment: line.strip().startswith(prefix)
is_comment(line) ==
    LET t == strip(line, Whitespace) IN Len(t) >= 1 /\ t[1] \in CommentPrefixes

\* the text of the line that is parsed: line[:comment_start].strip()
line_value(line) == IF is_comment(line) THEN <<>> ELSE strip(line, Whitespace)

\* NONSPACECRE: the number of whitespace characters the line begins with
indent_of(line) == RunEnd(line, 1, Whitespace) - 1

\* SECTCRE \[(?P<header>.+)\]: the header name, None if the line is no header
section_header(value) ==
    LET close == Max({k \in 1..Len(value) : value[k] = "]"} \cup {0})
    IN  IF Len(value) >= 1 /\ value[1] = "[" /\ close > 2
        THEN SubSeq(value, 2, close - 1)
        ELSE None

\* OPTCRE_NV (?P<option>.*?)\s*(?:(?P<vi>=|:)\s*(?P<value>.*))?$
option_match(value) ==
    LET d == Min({k \in 1..Len(value) : value[k] \in Delimiters} \cup {Len(value) + 1})
    IN  [option   |-> rstrip(SubSeq(value, 1, d - 1), Whitespace),
         hasvalue |-> d <= Len(value),
         value    |-> strip(Tail_from(value, d + 1), Whitespace)]

\* the parser state of ConfigParser._read: the sections, their options (a
\* list of value lines, or None), the current section and option, the indentation of the last header or option line,
\* the elements added by this read, and the error raised
NewParser ==
    [sections |-> EmptyDict, cursect |-> None, optname |-> None, indent |-> 0,
     added_sections |-> {}, added_options |-> {}, parsing_error |-> FALSE, err |-> "none"]

read_line(st, line) ==
    LET value  == line_value(line)
        header == section_header(value)
        mo     == option_match(value)
        name   == optionxform(mo.option)
        cur    == st.sections[st.cursect]
    IN  IF value = <<>>
        THEN \* an empty line is added to a multi-line value, a comment is not
             IF ~is_comment(line) /\ st.cursect # None /\ st.optname # None
                /\ cur[st.optname] # None
             THEN [st EXCEPT !.sections[st.cursect] =
                                 put(cur, st.optname, Append(cur[st.optname], <<>>))]
             ELSE st
        ELSE IF st.cursect # None /\ st.optname # None /\ indent_of(line) > st.indent
        THEN \* a continuation line: cursect[optname].append(value)
             IF cur[st.optname] = None
             THEN [st EXCEPT !.err = "AttributeError"]
             ELSE [st EXCEPT !.sections[st.cursect] =
                                 put(cur, st.optname, Append(cur[st.optname], value))]
        ELSE IF header # None
        THEN IF header \in DOMAIN st.sections
             THEN IF header \in st.added_sections
                  THEN [st EXCEPT !.err = "DuplicateSectionError"]
                  ELSE [st EXCEPT !.cursect = header, !.optname = None,
                                  !.indent = indent_of(line),
                                  !.added_sections = @ \cup {header}]
             ELSE [st EXCEPT !.sections = put(@, header, EmptyDict),
                             !.cursect = header, !.optname = None,
                             !.indent = indent_of(line),
                             !.added_sections = @ \cup {header}]
        ELSE IF st.cursect = None
        THEN [st EXCEPT !.err = "MissingSectionHeaderError"]
        ELSE IF mo.option = <<>>
        THEN [st EXCEPT !.parsing_error = TRUE, !.indent = indent_of(line)]
        ELSE IF <<st.cursect, name>> \in st.added_options
        THEN [st EXCEPT !.err = "DuplicateOptionError"]
        ELSE [st EXCEPT !.sections[st.cursect] =
                            put(cur, name, IF mo.hasvalue THEN <<mo.value>> ELSE None),
                        !.optname = name,
                        !.indent = indent_of(line),
                        !.added_options = @ \cup {<<st.cursect, name>>}]

RECURSIVE read_lines(_, _)
read_lines(st, ls) ==
    IF ls = <<>> \/ st.err # "none" THEN st
    ELSE read_lines(read_line(st, ls[1]), Tail(ls))

\* _join_multiline_values and the interpolation of items(): a list of value
\* lines becomes '\n'.join(val).rstrip(), None becomes ''
item_value(val) == IF val = None THEN <<>> ELSE rstrip(join(val), Whitespace \cup {"\n"})

\* ini.read_string(text) followed by
\* {s: dict(ini.items(s)) for s in ini.sections()}; err names the exception
read_string(ls) ==
    LET st == read_lines(NewParser, ls)
    IN  [err   |-> IF st.err # "none" THEN st.err
                   ELSE IF st.parsing_error THEN "ParsingError" ELSE "none",
         items |-> [s \in DOMAIN st.sections |->
                       [o \in DOMAIN st.sections[s] |-> item_value(st.sections[s][o])]]]

\* ------------------------------------------------------------ ini.process
Dict(d) == [kind |-> "dict", val |-> d]

quote == <<"\"">>

endswith(s, p) == Len(s) >= Len(p) /\ SubSeq(s, Len(s) - Len(p) + 1, Len(s)) = p

\* if value.startswith('"') and value.endswith('"'): value.lstrip('"').rstrip('"')
unquote(value) ==
    IF startswith(value, quote) /\ endswith(value, quote)
    THEN rstrip(lstrip(value, {"\""}), {"\""})
    ELSE value

\* process(proc_data): a heading is a dict of values (a section) or a value
process(proc_data) ==
    [heading \in DOMAIN proc_data |->
        IF proc_data[heading].kind = "dict"
        THEN Dict([key \in DOMAIN proc_data[heading].val |-> unquote(proc_data[heading].val[key])])
        ELSE Str(unquote(proc_data[heading].val))]

\* -------------------------------------------------------------- ini.parse
ini_text(d) == [n \in 1..Len(d) |-> IniLines[d[n]]]

ini_has_data(d) == \E n \in 1..Len(d) : not_isspace(IniLines[d[n]])

\* {s: dict(ini.items(s)) for s in ini.sections()}
sections_output(items) == [s \in DOMAIN items |-> Dict(items[s])]

\* the keys of the section that holds the whole text, one level up
fallback_output(items) == [key \in DOMAIN items[dataName] |-> Str(items[dataName][key])]

IniRaise(e) ==
    /\ ini_pc' = "raised"
    /\ ini_exc' = e
    /\ UNCHANGED <<git_vars, ini_data, ini_raw, ini_raw_output, ini_ret>>

\* has_data(data) is false: nothing is read (line 120)
IniNoData ==
    /\ ini_pc = "try"
    /\ ~ini_has_data(ini_data)
    /\ ini_pc' = "return"
    /\ UNCHANGED <<git_vars, ini_data, ini_raw, ini_exc, ini_raw_output, ini_ret>>

\* the try block (lines 122-125)
IniTry ==
    /\ ini_pc = "try"
    /\ ini_has_data(ini_data)
    /\ LET r == read_string(ini_text(ini_data))
       IN  IF r.err = "MissingSectionHeaderError"
           THEN /\ ini_pc' = "except"
                /\ UNCHANGED <<git_vars, ini_data, ini_raw, ini_exc, ini_raw_output, ini_ret>>
           ELSE IF r.err # "none"
           THEN IniRaise(r.err)
           ELSE /\ ini_raw_output' = sections_output(r.items)
                /\ ini_pc' = "return"
                /\ UNCHANGED <<git_vars, ini_data, ini_raw, ini_exc, ini_ret>>

\* except MissingSectionHeaderError (lines 127-132)
IniExcept ==
    /\ ini_pc = "except"
    /\ LET r == read_string(<<iniSectData>> \o ini_text(ini_data))
       IN  IF r.err # "none"
           THEN IniRaise(r.err)
           ELSE /\ ini_raw_output' = fallback_output(r.items)
                /\ ini_pc' = "return"
                /\ UNCHANGED <<git_vars, ini_data, ini_raw, ini_exc, ini_ret>>

\* if raw: return raw_output (lines 134-135)
IniReturnRaw ==
    /\ ini_pc = "return"
    /\ ini_raw
    /\ ini_ret' = ini_raw_output
    /\ ini_pc' = "done"
    /\ UNCHANGED <<git_vars, ini_data, ini_raw, ini_exc, ini_raw_output>>

\* else: return process(raw_output) (lines 136-137)
IniReturnProcessed ==
    /\ ini_pc = "return"
    /\ ~ini_raw
    /\ ini_ret' = process(ini_raw_output)
    /\ ini_pc' = "done"
    /\ UNCHANGED <<git_vars, ini_data, ini_raw, ini_exc, ini_raw_output>>

IniInit ==
    /\ ini_data \in IniInputs
    /\ ini_raw \in BOOLEAN
    /\ ini_pc = "try"
    /\ ini_exc = "none"
    /\ ini_raw_output = EmptyDict
    /\ ini_ret = EmptyDict
    /\ data = <<>>
    /\ i = 1
    /\ pc = "idle"
    /\ exc = "none"
    /\ heap = <<EmptyDict>>
    /\ raw_output = <<>>
    /\ output_line = 1
    /\ message_lines = <<>>
    /\ file_list = <<>>
    /\ ret = <<>>

IniNext ==
    \/ IniNoData
    \/ IniTry
    \/ IniExcept
    \/ IniReturnRaw
    \/ IniReturnProcessed

SpecIni == IniInit /\ [][IniNext]_vars

\* ------------------------------------------------- notions of the claims
Range(s) == {s[n] : n \in 1..Len(s)}

Last(s) == s[Len(s)]

\* a compact line with message text; a 'commit ' line with a hash after it
IsCompact(n) == branch_of[n] = "oneline" /\ Len(line_list_of[n]) = 2

IsCommit(n) == branch_of[n] = "commit" /\ Len(line_list_of[n]) = 2

IsBoundary(n) == branch_of[n] \in {"oneline", "commit"}

\* the hash a boundary-triggering line carries
hash_of(n) ==
    IF branch_of[n] = "oneline" THEN line_list_of[n][1]
    ELSE IF Len(line_list_of[n]) = 2 THEN line_list_of[n][2]
    ELSE <<>>

\* the hashes of the boundary-triggering lines of d, in input order
RECURSIVE boundary_hashes(_)
boundary_hashes(d) ==
    IF d = <<>> THEN <<>>
    ELSE IF IsBoundary(d[1]) THEN <<hash_of(d[1])>> \o boundary_hashes(Tail(d))
    ELSE boundary_hashes(Tail(d))

\* the position of the first boundary-triggering line after k, Len(d)+1 if none
next_boundary(d, k) == Min({m \in (k + 1)..Len(d) : IsBoundary(d[m])} \cup {Len(d) + 1})

\* the contents (indentation removed) of the message-role lines of d
\* at positions from..to, in order
RECURSIVE message_contents(_, _, _)
message_contents(d, from, to) ==
    IF from > to THEN <<>>
    ELSE IF branch_of[d[from]] = "message"
         THEN <<Tail_from(Lines[d[from]], Len(pfxIndent) + 1)>> \o message_contents(d, from + 1, to)
         ELSE message_contents(d, from + 1, to)

\* the in-progress record was opened by a 'commit ' line and is not yet sealed
OpenRecord ==
    /\ "commit" \in DOMAIN heap[output_line]
    /\ output_line \notin Range(raw_output)

\* the step appends a record that the oneline branch did not create
SealStep ==
    /\ Len(raw_output') = Len(raw_output) + 1
    /\ ~(i <= Len(data) /\ has_data(data) /\ branch_of[data[i]] = "oneline")

\* ------------------------------------------------------------------- C1
\* C1: parse never raises, whatever the input lines are.
C1_NeverRaises == pc # "raised"

\* ------------------------------------------------------------------- C2
\* C2: an input of compact lines only gives exactly one record per line, in
\* line order, each with exactly the keys commit (first token) and message
\* (rest of the line).
C2_OneRecordPerCompactLine ==
    (pc = "done" /\ data # <<>> /\ \A n \in 1..Len(data) : IsCompact(data[n]))
        => /\ Len(ret) = Len(data)
           /\ \A n \in 1..Len(data) :
                  ret[n] = [commit |-> line_list_of[data[n]][1], message |-> line_list_of[data[n]][2]]

\* ------------------------------------------------------------------- C3
\* C3: the output has one record per boundary-triggering line ('commit '
\* lines and compact lines), and the commit fields in output order are the
\* hashes of those lines in input order.
C3_OneRecordPerBoundary ==
    pc = "done"
        => /\ Len(ret) = Len(boundary_hashes(data))
           /\ \A n \in 1..Len(ret) :
                  "commit" \in DOMAIN ret[n] /\ ret[n]["commit"] = boundary_hashes(data)[n]

\* ------------------------------------------------------------------- C4
\* C4: every record of the output has a commit key.
C4_EveryRecordHasCommit ==
    pc = "done" => \A n \in 1..Len(ret) : "commit" \in DOMAIN ret[n]

\* ------------------------------------------------------------------- C5
\* the input has ended while a record opened by a 'commit ' line is open
OpenAtEnd ==
    /\ pc = "loop"
    /\ has_data(data)
    /\ i > Len(data)
    /\ OpenRecord

\* C5: when the input ends while a record opened by a 'commit ' line is
\* still open, parse returns and that record, sealed with the buffered
\* message, is the last element of the output.
C5_EndOfStreamFlush ==
    [][OpenAtEnd =>
          /\ pc' = "done"
          /\ ret' # <<>>
          /\ Last(ret')["commit"] = heap[output_line]["commit"]
          /\ message_lines # <<>> =>
                 /\ "message" \in DOMAIN Last(ret')
                 /\ Last(ret')["message"] = join(message_lines)]_vars

\* ------------------------------------------------------------------- C6
\* C6: for every 'commit ' line the output holds its record, whose message
\* is the contents of the message-role lines between that line and the next
\* boundary (or the end of input), in order, joined with a newline.
C6_MessageOfRecord ==
    pc = "done" =>
        \A k \in 1..Len(data) :
            IsCommit(data[k]) =>
                LET contents == message_contents(data, k + 1, next_boundary(data, k) - 1)
                IN  \E n \in 1..Len(ret) :
                        /\ "commit" \in DOMAIN ret[n]
                        /\ ret[n]["commit"] = hash_of(data[k])
                        /\ IF contents = <<>>
                           THEN "message" \in DOMAIN ret[n] => ret[n]["message"] = <<>>
                           ELSE "message" \in DOMAIN ret[n] /\ ret[n]["message"] = join(contents)

\* ------------------------------------------------------------------- C7
wFile == <<" ", "f", "i", "l", "e">>

wChanged == <<" ", "c", "h", "a", "n", "g", "e", "d", ",", " ">>

wInsertion == <<" ", "i", "n", "s", "e", "r", "t", "i", "o", "n">>

wDeletion == <<" ", "d", "e", "l", "e", "t", "i", "o", "n">>

wPlus == <<"(", "+", ")">>

wMinus == <<"(", "-", ")">>

\* the count that stands right before the first occurrence of word w in the
\* line, <<>> when the line has no such clause
clause_count(line, w) ==
    LET at    == {k \in 1..(Len(line) - Len(w) + 1) : SubSeq(line, k, k + Len(w) - 1) = w}
        k     == Min(at)
        start == Max({j \in 1..(k - 1) : line[j] \notin Digits} \cup {0}) + 1
    IN  IF at = {} THEN <<>> ELSE SubSeq(line, start, k - 1)

\* the line is ' N file(s) changed, ' followed by an insertions clause, a
\* deletions clause, or both separated by ', '
SummaryForm(line) ==
    LET N == clause_count(line, wFile)
        I == clause_count(line, wInsertion)
        D == clause_count(line, wDeletion)
    IN  /\ N # <<>>
        /\ I # <<>> \/ D # <<>>
        /\ \E s1, s2, s3 \in {<<>>, <<"s">>} :
              line = <<" ">> \o N \o wFile \o s1 \o wChanged
                     \o (IF I # <<>> THEN I \o wInsertion \o s2 \o wPlus ELSE <<>>)
                     \o (IF I # <<>> /\ D # <<>> THEN <<",", " ">> ELSE <<>>)
                     \o (IF D # <<>> THEN D \o wDeletion \o s3 \o wMinus ELSE <<>>)

SummaryForm_of == [n \in 1..Len(Lines) |-> SummaryForm(Lines[n])]

\* C7: a summary line of that form inside an open record sets stats.files_changed to N,
\* stats.insertions to the count of the insertion(s) clause, "0" without
\* one, and stats.deletions to the count of the deletion(s) clause, "0"
\* without one.
C7_StatsCounts ==
    [][(pc = "loop" /\ has_data(data) /\ i <= Len(data) /\ SummaryForm_of[data[i]] /\ OpenRecord) =>
          LET line == Lines[data[i]]
          IN  /\ pc' = "loop"
              /\ "stats" \in DOMAIN heap'[output_line]
              /\ heap'[output_line]["stats"].files_changed = clause_count(line, wFile)
              /\ heap'[output_line]["stats"].insertions = or_zero(clause_count(line, wInsertion))
              /\ heap'[output_line]["stats"].deletions = or_zero(clause_count(line, wDeletion))]_vars

\* ------------------------------------------------------------------- C8
\* C8: when a record with stats is sealed, stats.files is the flat list of
\* the buffered file paths, one string element per path, in order (empty
\* when no path was buffered).
C8_FilesIsFlatList ==
    [][(SealStep /\ OpenRecord /\ "stats" \in DOMAIN heap[output_line]) =>
          /\ "stats" \in DOMAIN heap'[output_line]
          /\ heap'[output_line]["stats"].files = [n \in 1..Len(file_list) |-> Str(file_list[n])]]_vars

\* ------------------------------------------------------------------- C9
\* C9 as stated: every emitted record has a message key.
C9_EveryRecordHasMessage ==
    pc = "done" => \A n \in 1..Len(ret) : "message" \in DOMAIN ret[n]

\* C9, amended: a record sealed at a 'commit ' line or at the end of input
\* has a message key exactly when the pending message buffer is non-empty at
\* that time or the record is a compact record; with the key present through
\* the buffer, message is the buffered lines joined with a newline. A
\* multi-line record without message lines is emitted without the key.
C9_MessageKeyIffBuffered ==
    [][SealStep =>
          LET r == heap'[Last(raw_output')]
          IN  /\ ("message" \in DOMAIN r) <=> (message_lines # <<>> \/ output_line \in Range(raw_output))
              /\ message_lines # <<>> => r["message"] = join(message_lines)]_vars

\* a 'commit ' record without message lines was returned, without the key
C9_Witness ==
    /\ pc = "done"
    /\ \E n \in 1..Len(ret) :
          /\ "commit" \in DOMAIN ret[n]
          /\ "message" \notin DOMAIN ret[n]
    /\ \A k \in 1..Len(data) : branch_of[data[k]] # "message"

\* ------------------------------------------------------------------ C10
\* C10: a 'Merge: ' line inside an open record stores the remainder of the
\* line under the key merge_parents and under no other key; a record gets a
\* merge_parents key in no other way.
C10_MergeParentsKey ==
    [][(pc = "loop" /\ has_data(data) /\ i <= Len(data)) =>
          IF branch_of[data[i]] = "merge" /\ OpenRecord
          THEN /\ pc' = "loop"
               /\ DOMAIN heap'[output_line] = DOMAIN heap[output_line] \cup {"merge_parents"}
               /\ heap'[output_line]["merge_parents"]
                      = Tail_from(Lines[data[i]], Len(pfxMerge) + 1)
          ELSE (pc' = "loop" /\ "merge_parents" \in DOMAIN heap'[output_line'])
                   => "merge_parents" \in DOMAIN heap[output_line]]_vars

\* ------------------------------------------------------------------ C11
\* the input has no character other than whitespace (it may have no line)
WhitespaceOnly(d) == \A n \in 1..Len(d) : \A k \in 1..Len(Lines[d[n]]) : Lines[d[n]][k] \in Whitespace

\* C11: empty input and whitespace-only input return the empty sequence, and
\* no record is opened or emitted.
C11_EmptyInputEmptyOutput ==
    (WhitespaceOnly(data) /\ pc # "loop")
        => /\ pc = "done"
           /\ ret = <<>>
           /\ raw_output = <<>>
           /\ ~truthy(heap[output_line])

\* a whitespace-only input of at least one line was parsed
C11_Witness ==
    /\ pc = "done"
    /\ data # <<>>
    /\ WhitespaceOnly(data)
    /\ \E n \in 1..Len(data) : Lines[data[n]] # <<>>
    /\ ret = <<>>

\* the loop is about to process line data[i]
AtLine == pc = "loop" /\ has_data(data) /\ i <= Len(data)

\* ------------------------------------------------------------------ C13
\* C13: a compact line that arrives while a record opened by a 'commit '
\* line is open first seals that record (message joined, file list attached)
\* and appends it to the output, and only then emits the compact record.
C13_CompactSealsOpenRecord ==
    [][(AtLine /\ IsCompact(data[i]) /\ OpenRecord) =>
          /\ pc' = "loop"
          /\ Len(raw_output') = Len(raw_output) + 2
          /\ raw_output'[Len(raw_output) + 1] = output_line
          /\ heap'[output_line]["commit"] = heap[output_line]["commit"]
          /\ message_lines # <<>> => heap'[output_line]["message"] = join(message_lines)
          /\ heap'[Last(raw_output')] = oneline_record(line_list_of[data[i]])]_vars

\* ------------------------------------------------------------------ C14
\* C14: no step changes a record that is already in the output sequence,
\* nor its place there.
C14_SealedRecordsImmutable ==
    [][/\ Len(raw_output') >= Len(raw_output)
       /\ \A n \in 1..Len(raw_output) :
              /\ raw_output'[n] = raw_output[n]
              /\ heap'[raw_output[n]] = heap[raw_output[n]]]_vars

\* ------------------------------------------------------------------ C15
\* C15: right after a 'commit ' line is processed both pending buffers are
\* empty, whether or not a record was open before it.
C15_BuffersEmptyAfterBoundary ==
    [][(AtLine /\ IsCommit(data[i]) /\ pc' = "loop") =>
          /\ message_lines' = <<>>
          /\ file_list' = <<>>]_vars

\* ------------------------------------------------------------------ C16
\* C16: a header line processed while no record is open changes nothing:
\* there is still no in-progress record, and output and buffers are as
\* before (so the output is that of the input without the line).
C16_OrphanHeaderIsNoOp ==
    [][(/\ AtLine
        /\ branch_of[data[i]] \in {"merge", "author", "date", "authordate", "commitdate", "commitby"}
        /\ Len(line_list_of[data[i]]) = 2
        /\ ~truthy(heap[output_line])) =>
          /\ pc' = "loop"
          /\ ~truthy(heap'[output_line'])
          /\ UNCHANGED <<raw_output, message_lines, file_list>>]_vars

\* ------------------------------------------------------------------ C17
\* a record with buffered file paths and no stats is about to be sealed, by
\* a 'commit ' line or by the end of input
SealWithoutSummary ==
    /\ pc = "loop"
    /\ (has_data(data) /\ i <= Len(data)) => IsCommit(data[i])
    /\ OpenRecord
    /\ file_list # <<>>
    /\ "stats" \notin DOMAIN heap[output_line]

\* C17: sealing a record that has file paths buffered but no stats completes
\* normally: the record is emitted without a stats key and the paths are
\* dropped, so that no later record gets them.
C17_FilesWithoutSummaryDiscarded ==
    [][SealWithoutSummary =>
          /\ pc' # "raised"
          /\ Len(raw_output') = Len(raw_output) + 1
          /\ Last(raw_output') = output_line
          /\ "stats" \notin DOMAIN heap'[output_line]
          /\ pc' = "loop" => file_list' = <<>>]_vars

\* ------------------------------------------------------------------ C18
\* the line without its first four characters (the fixed indentation)
dedent(line) == Tail_from(line, Len(pfxIndent) + 1)

\* C18 as stated: the content appended for a message line is the line with
\* exactly its four leading spaces removed; deeper indentation and trailing
\* whitespace stay.
C18_OnlyIndentRemoved ==
    [][(AtLine /\ branch_of[data[i]] = "message") =>
          message_lines' = Append(message_lines, dedent(Lines[data[i]]))]_vars

\* c is s without the whitespace at its two ends
IsTrimOf(c, s) ==
    /\ c = <<>> \/ (c[1] \notin Whitespace /\ c[Len(c)] \notin Whitespace)
    /\ \E a \in 0..Len(s) :
          /\ a + Len(c) <= Len(s)
          /\ SubSeq(s, a + 1, a + Len(c)) = c
          /\ \A k \in (1..a) \cup ((a + Len(c) + 1)..Len(s)) : s[k] \in Whitespace

\* C18, amended: the content appended for a message line is the line with
\* all its leading and all its trailing whitespace removed; nothing else
\* changes.
C18_ContentIsTrimmedLine ==
    [][(AtLine /\ branch_of[data[i]] = "message") =>
          /\ Len(message_lines') = Len(message_lines) + 1
          /\ SubSeq(message_lines', 1, Len(message_lines)) = message_lines
          /\ IsTrimOf(Last(message_lines'), Lines[data[i]])
          /\ UNCHANGED <<heap, raw_output, output_line, file_list, pc>>]_vars

\* a message line with deeper indentation and trailing whitespace was
\* buffered, and the buffered content is shorter than the dedented line
C18_Witness ==
    /\ pc = "loop"
    /\ i > 1
    /\ Lines[data[i - 1]] = lnMsgDeep
    /\ message_lines # <<>>
    /\ Last(message_lines) = <<"d", "e", "e", "p">>

\* ------------------------------------------------------------------ C19
\* a token of 40 characters, all of them hexadecimal digits
IsHex40(tok) == Len(tok) = HashLen /\ \A k \in 1..Len(tok) : tok[k] \in HexChars

\* the step emits a new compact record: a fresh dict is appended to the
\* output and becomes the in-progress dict
CompactStep ==
    /\ pc' = "loop"
    /\ Len(raw_output') = Len(raw_output) + 1
    /\ output_line' # output_line
    /\ Last(raw_output') = output_line'

\* C19: a line (of at least two tokens) is handled as a compact record
\* exactly when its first whitespace-delimited token is 40 hexadecimal
\* digits, and _is_commit_hash is true of exactly those tokens.
C19_CompactIffHex40 ==
    [][(AtLine /\ Len(split1(Lines[data[i]])) = 2) =>
          LET tok == split1(Lines[data[i]])[1]
          IN  /\ CompactStep <=> IsHex40(tok)
              /\ _is_commit_hash(tok) <=> IsHex40(tok)]_vars

\* ------------------------------------------------------------------ C20
Prefixes == {pfxCommit, pfxMerge, pfxAuthor, pfxDate, pfxAuthorDate, pfxCommitDate, pfxCommitBy}

\* a blank line, or a line with no leading space, no recognised prefix and
\* no first token that is 40 characters long and starts as a hash
Unclassified(line) ==
    /\ ~(Len(line) >= 1 /\ line[1] = " ")
    /\ \A p \in Prefixes : ~(Len(line) >= Len(p) /\ SubSeq(line, 1, Len(p)) = p)
    /\ LET toks == split1(line)
       IN  toks # <<>> => ~(Len(toks[1]) = HashLen /\ toks[1][1] \in HexChars)

Unclassified_of == [n \in 1..Len(Lines) |-> Unclassified(Lines[n])]

entry_name(line) ==
    LET value == line_value(line)
    IN  IF section_header(value) # None
        THEN <<"[">> \o section_header(value)
        ELSE optionxform(option_match(value).option)

\* no header and no key is written twice
NoRepeats(d) ==
    \A a, b \in 1..Len(d) :
        (a < b /\ line_value(IniLines[d[a]]) # <<>>)
            => entry_name(IniLines[d[a]]) # entry_name(IniLines[d[b]])

\* the keys written at the start of a line with no delimiter after them
ValuelessKeys(d) ==
    { entry_name(IniLines[d[n]]) :
        n \in { m \in 1..Len(d) :
                  /\ line_value(IniLines[d[m]]) # <<>>
                  /\ indent_of(IniLines[d[m]]) = 0
                  /\ section_header(line_value(IniLines[d[m]])) = None
                  /\ ~option_match(line_value(IniLines[d[m]])).hasvalue } }

\* the returned dictionary holds the key, at the top or inside a section
HasKey(dict, key) ==
    \/ key \in DOMAIN dict
    \/ \E s \in DOMAIN dict : dict[s].kind = "dict" /\ key \in DOMAIN dict[s].val

IniEnded == ini_pc \in {"done", "raised"}

\* C12: when the text has a key with no delimiter after it (and writes no
\* key or header twice), parse returns, in raw and in processed mode, with
\* or without section headers, a dictionary that holds that key; it does
\* not raise.
C12_MissingValuesSupported ==
    \A key \in ValuelessKeys(ini_data) :
        (NoRepeats(ini_data) /\ IniEnded) => (ini_pc = "done" /\ HasKey(ini_ret, key))
====
